---- MODULE Spec2Model ----
(***************************************************************************)
(* A model of src/DailyExpenses.py, a Streamlit finance tracker.           *)
(*                                                                         *)
(* Streamlit executes the script top to bottom once per user interaction   *)
(* (a "run").  st.session_state survives from run to run, every other      *)
(* name of the script is recomputed.  st.stop() ends a run, st.rerun()     *)
(* ends it and starts the next one at once.  The three worksheets are the  *)
(* record store; get_data() reads them into the run's snapshot.            *)
(*                                                                         *)
(* Amounts are integers (the script's floats without their rounding).      *)
(* Columns that the script writes and never reads keep their place in the  *)
(* rows.                                                                   *)
(***************************************************************************)
EXTENDS Integers, Sequences, FiniteSets, TLC

(***************************************************************************)
(* Bounds of the model and the inputs the user may type or pick.           *)
(***************************************************************************)
\* the rows one session appends, all three tables together
MaxAppends == 3
\* the rows of the Expenses / CategoryBudgets sheet a run may find stored
MaxStoredExp == 2
MaxStoredBud == 2

\* line 131: today.day >= 25
ReminderDay == 25

\* two of the fifteen tags of lines 59-63
CATEGORIES == <<"Groceries", "Rent">>

\* st.secrets["login"]["password"]
SecretPassword == "secret"
Passwords == {"secret", "wrong"}

\* values of the salary / new_salary number inputs
SalaryInputs == {0, 50}
\* values of the expense amount input
ExpenseInputs == {10}
\* values of the allocation limit input (min_value = 0.0)
LimitInputs == {0, 10}
Descriptions == {"milk"}

Date(y, m, d) == [year |-> y, month |-> m, day |-> d]

\* the clock of a session of the application
SessionDays == {Date(2024, 12, 24), Date(2024, 12, 25)}
\* the clock of a run over a stored sheet
ReportDays == {Date(2025, 1, 15), Date(2024, 12, 15)}
\* the dates of stored expenses
StoredDates == {Date(2023, 12, 5), Date(2024, 12, 5), Date(2025, 1, 5)}
\* the clock of the period resolver
Years == 2023 .. 2025

\* line 210: calendar.monthrange(y, m)[1]
days_in_month(y, m) ==
    IF m \in {4, 6, 9, 11} THEN 30
    ELSE IF m # 2 THEN 31
    ELSE IF y % 4 = 0 /\ (y % 100 # 0 \/ y % 400 = 0) THEN 29 ELSE 28

(***************************************************************************)
(* Formatting: strftime and the f-strings of lines 124-129.                *)
(***************************************************************************)
Digit(d) == <<"0", "1", "2", "3", "4", "5", "6", "7", "8", "9">>[d + 1]

RECURSIVE Str(_)
\* str(n) of a natural number
Str(n) == IF n < 10 THEN Digit(n) ELSE Str(n \div 10) \o Digit(n % 10)

\* {n:02d} and strftime's %m, %d
Pad2(n) == IF n < 10 THEN "0" \o Str(n) ELSE Str(n)

\* strftime's %Y
Pad4(n) ==
    IF n < 10 THEN "000" \o Str(n)
    ELSE IF n < 100 THEN "00" \o Str(n)
    ELSE IF n < 1000 THEN "0" \o Str(n)
    ELSE Str(n)

\* d.strftime("%Y-%m-%d")
DateStr(d) == Pad4(d.year) \o "-" \o Pad2(d.month) \o "-" \o Pad2(d.day)

\* today.strftime("%Y-%m")
curr_month_str(t) == Pad4(t.year) \o "-" \o Pad2(t.month)

\* a resolver that forgets the December rollover
next_month_str_NoRollover(t) == Str(t.year) \o "-" \o Pad2(t.month + 1)

\* lines 126-129
next_month_str(t) ==
    IF t.month = 12
    THEN Str(t.year + 1) \o "-01"
    ELSE Str(t.year) \o "-" \o Pad2(t.month + 1)

\* lines 131-136
target_plan_month(t) ==
    IF t.day >= ReminderDay THEN next_month_str(t) ELSE curr_month_str(t)

(***************************************************************************)
(* Rows of the three worksheets, as append_row writes them.                *)
(***************************************************************************)
\* a cell of the Amount column of the Expenses worksheet: a number, or a text
\* that is none (a blank cell is the text "")
NumberCell(n) == [kind |-> "number", num |-> n, text |-> ""]

TextCell(s) == [kind |-> "text", num |-> 0, text |-> s]

\* line 182: [date_input.strftime("%Y-%m-%d"), category, desc, float(amt)]
ExpenseRow(date, cat, desc, amt) ==
    [Date |-> DateStr(date), Category |-> cat, Description |-> desc,
     Amount |-> NumberCell(amt)]

IncomeRow(period, amt, t) ==
    [Month_Year |-> period, Amount |-> amt, Source |-> "Salary",
     Date_Added |-> DateStr(t)]

BudgetRow(period, cat, amt, t) ==
    [Month_Year |-> period, Category |-> cat, Planned_Amount |-> amt,
     Date_Added |-> DateStr(t)]

\* a writer that puts the new row first
append_row_Top(sheet, row) == <<row>> \o sheet

\* worksheet.append_row(row)
append_row(sheet, row) == Append(sheet, row)

(***************************************************************************)
(* get_data: the snapshot of a run.                                        *)
(***************************************************************************)
\* the dates a cell of the Date column can hold
KnownDates == SessionDays \cup ReportDays \cup StoredDates

NaT == Date(0, 0, 0)

\* pd.to_datetime(..., errors="coerce") on one cell
to_datetime(s) ==
    IF \E d \in KnownDates : DateStr(d) = s
    THEN CHOOSE d \in KnownDates : DateStr(d) = s
    ELSE NaT

\* line 93: pd.to_numeric(..., errors="coerce").fillna(0.0) on one cell
to_numeric(cell) == IF cell.kind = "number" THEN cell.num ELSE 0

\* lines 90-94: parse the dates, make the amounts numbers (0 for a cell that
\* holds none), drop the rows without a date
ReadExpenses(sheet) ==
    SelectSeq([i \in DOMAIN sheet |->
                  [sheet[i] EXCEPT !.Date = to_datetime(sheet[i].Date),
                                   !.Amount = to_numeric(sheet[i].Amount)]],
              LAMBDA r : r.Date # NaT)

(***************************************************************************)
(* Aggregations: pandas filters, groupby sums and merges.                  *)
(***************************************************************************)
RECURSIVE SumAmount(_)
\* rows["Amount"].sum()
SumAmount(rows) ==
    IF rows = <<>> THEN 0 ELSE Head(rows).Amount + SumAmount(Tail(rows))

RECURSIVE SumPlanned(_)
\* rows["Planned_Amount"].sum()
SumPlanned(rows) ==
    IF rows = <<>> THEN 0 ELSE Head(rows).Planned_Amount + SumPlanned(Tail(rows))

CategoriesOf(rows) == {rows[i].Category : i \in DOMAIN rows}

\* rows.groupby("Category")["Amount"].sum(): category -> sum
GroupAmount(rows) ==
    [c \in CategoriesOf(rows) |->
        SumAmount(SelectSeq(rows, LAMBDA r : r.Category = c))]

\* a grouping that keeps the last row of each category
GroupPlanned_Last(rows) ==
    [c \in CategoriesOf(rows) |->
        LET g == SelectSeq(rows, LAMBDA r : r.Category = c)
        IN  g[Len(g)].Planned_Amount]

\* rows.groupby("Category")["Planned_Amount"].sum(): category -> sum
GroupPlanned(rows) ==
    [c \in CategoriesOf(rows) |->
        SumPlanned(SelectSeq(rows, LAMBDA r : r.Category = c))]

\* the sum of a grouped column
TotalOf(grouped) ==
    LET RECURSIVE Tot(_)
        Tot(S) == IF S = {} THEN 0
                  ELSE LET c == CHOOSE x \in S : TRUE
                       IN  grouped[c] + Tot(S \ {c})
    IN  Tot(DOMAIN grouped)

\* pd.DataFrame(): no rows
EmptyFrame == [c \in {} |-> 0]

\* an income lookup that takes the first matching row
LastAmount_First(inc, period) ==
    LET m == SelectSeq(inc, LAMBDA r : r.Month_Year = period)
    IN  IF inc # <<>> /\ m # <<>> THEN m[1].Amount ELSE 0

\* lines 196-199 and 337-340: the Amount of the last row of the period, else 0
LastAmount(inc, period) ==
    LET m == SelectSeq(inc, LAMBDA r : r.Month_Year = period)
    IN  IF inc # <<>> /\ m # <<>> THEN m[Len(m)].Amount ELSE 0

\* a reminder that asks again while the recorded income is 0
income_exists_Positive(inc, target) ==
    inc # <<>> /\ LastAmount(inc, target) # 0

\* lines 138-142
income_exists(inc, target) ==
    inc # <<>> /\ SelectSeq(inc, LAMBDA r : r.Month_Year = target) # <<>>

\* line 194 (and curr_df, line 306)
dash_df(exp, t) ==
    SelectSeq(exp, LAMBDA r : r.Date.month = t.month /\ r.Date.year = t.year)

\* lines 196-199
curr_sal(inc, t) == LastAmount(inc, curr_month_str(t))

\* lines 201-204
curr_plan(bud, t) ==
    IF bud # <<>>
    THEN GroupPlanned(SelectSeq(bud, LAMBDA r : r.Month_Year = curr_month_str(t)))
    ELSE EmptyFrame

\* a merge that keeps the planned categories only (how="left")
merged_Left(plan, actual) ==
    {[Category |-> c,
      Planned |-> plan[c],
      Actual |-> IF c \in DOMAIN actual THEN actual[c] ELSE 0] : c \in DOMAIN plan}

\* lines 227-232: the outer merge, or the actuals alone with Planned = 0
merged(plan, actual) ==
    IF DOMAIN plan # {}
    THEN {[Category |-> c,
           Planned |-> IF c \in DOMAIN plan THEN plan[c] ELSE 0,
           Actual |-> IF c \in DOMAIN actual THEN actual[c] ELSE 0] :
                c \in DOMAIN plan \cup DOMAIN actual}
    ELSE {[Category |-> c, Planned |-> 0, Actual |-> actual[c]] : c \in DOMAIN actual}

\* line 234
WithFlag(rows) ==
    {[Category |-> r.Category, Planned |-> r.Planned, Actual |-> r.Actual,
      Is_Over_Budget |-> r.Actual > r.Planned] : r \in rows}

Abs(x) == IF x < 0 THEN 0 - x ELSE x

\* an over-limit filter that also keeps the rows that are exactly on budget
over_budget_OrEqual(rows) ==
    {[Category |-> r.Category, Diff |-> r.Planned - r.Actual,
      Over_By |-> Abs(r.Planned - r.Actual)] :
        r \in {x \in rows : x.Planned - x.Actual <= 0}}

\* lines 256-258
over_budget(rows) ==
    {[Category |-> r.Category, Diff |-> r.Planned - r.Actual,
      Over_By |-> Abs(r.Planned - r.Actual)] :
        r \in {x \in rows : x.Planned - x.Actual < 0}}

\* lines 283-284
excluded_cats == {"Rent", "House", "TV/Subscriptions", "Gifts"}

weekly_df(exp) == SelectSeq(exp, LAMBDA r : r.Category \notin excluded_cats)

\* lines 302-304: the month of the day before the first day of this month
prev_month_idx(t) == IF t.month = 1 THEN 12 ELSE t.month - 1

\* line 307
prev_df(exp, t) == SelectSeq(exp, LAMBDA r : r.Date.month = prev_month_idx(t))

\* line 317: the outer merge of the two grouped months
comp_merged(c_cat, p_cat) ==
    {[Category |-> c,
      Current |-> IF c \in DOMAIN c_cat THEN c_cat[c] ELSE 0,
      Previous |-> IF c \in DOMAIN p_cat THEN p_cat[c] ELSE 0] :
        c \in DOMAIN c_cat \cup DOMAIN p_cat}

\* lines 368-370
plan_df(bud, opt) ==
    IF bud # <<>> THEN SelectSeq(bud, LAMBDA r : r.Month_Year = opt) ELSE <<>>

\* lines 373-374
display_df(bud, opt) ==
    IF plan_df(bud, opt) # <<>> THEN GroupPlanned(plan_df(bud, opt)) ELSE EmptyFrame

(***************************************************************************)
(* State.                                                                  *)
(***************************************************************************)
VARIABLES
    today,              \* datetime.now() of the session's runs
    password_correct,   \* st.session_state["password_correct"]: "absent", "True", "False"
    skip_prompt,        \* st.session_state.get('skip_prompt', False)
    radio,              \* the option of the "Select Month to Plan" radio: 1 or 2
    sheet_exp,          \* the rows of the Expenses worksheet
    sheet_inc,          \* the rows of the Income worksheet
    sheet_cat_bud,      \* the rows of the CategoryBudgets worksheet
    df_exp,             \* the run's snapshot of the three worksheets
    df_inc,
    df_cat_bud,
    pc,                 \* the place the run has reached; "idle" between runs
    trigger,            \* the run was started by a widget not yet reached
    event,              \* the widget event the run has handled
    screen,             \* the page the last run left: "none", "login", "app", "error"
    reminder,           \* the income reminder as rendered
    tab2,               \* the Dashboard as rendered
    tab3,               \* the Analysis as rendered
    tab4                \* the Budget Planner as rendered

session == <<password_correct, skip_prompt, radio>>
sheets == <<sheet_exp, sheet_inc, sheet_cat_bud>>
snapshot == <<df_exp, df_inc, df_cat_bud>>
views == <<reminder, tab2, tab3, tab4>>
vars == <<today, session, sheets, snapshot, pc, trigger, event, screen, views>>

NoEvent == [type |-> "none", text |-> "", cat |-> "", amt |-> 0]
NoReminder == [decided |-> FALSE, target |-> "", shown |-> FALSE]
NoTab2 == [rendered |-> FALSE, curr_sal |-> 0, curr_plan |-> EmptyFrame,
           total_spent |-> 0, total_planned |-> 0, merged |-> {}, over_budget |-> {}]
NoTab3 == [rendered |-> FALSE, weekly |-> 0, c_total |-> 0, p_total |-> 0,
           comp_merged |-> {}]
NoTab4 == [rendered |-> FALSE, plan_month_opt |-> "", current_salary |-> 0,
           display_df |-> EmptyFrame, total_alloc |-> 0]

Appended == Len(sheet_exp) + Len(sheet_inc) + Len(sheet_cat_bud)

\* the script starts again from its first line: every name of the script is unset
StartRun ==
    /\ pc' = "gate"
    /\ df_exp' = <<>> /\ df_inc' = <<>> /\ df_cat_bud' = <<>>
    /\ reminder' = NoReminder /\ tab2' = NoTab2 /\ tab3' = NoTab3 /\ tab4' = NoTab4

\* st.rerun()
Rerun == StartRun /\ trigger' = FALSE

\* line 333: [curr_month_str, next_month_str][radio]
plan_month_opt(r, t) == IF r = 1 THEN curr_month_str(t) ELSE next_month_str(t)

\* line 144
ShowPrompt == ~income_exists(df_inc, target_plan_month(today)) /\ ~skip_prompt

(***************************************************************************)
(* The login gate, lines 17-47.  The typed password itself is not kept.    *)
(***************************************************************************)
\* a gate that lets every run through
check_password_Open(flag) == TRUE

\* lines 33-44: what check_password returns
check_password(flag) == flag = "True"

\* lines 20-26: the on_change callback of the password input, then the run
password_entered(pw) ==
    /\ pc = "idle" /\ screen = "login"
    /\ password_correct' = IF pw = SecretPassword THEN "True" ELSE "False"
    /\ event' = [NoEvent EXCEPT !.type = "password", !.text = pw]
    /\ trigger' = FALSE
    /\ StartRun
    /\ UNCHANGED <<today, skip_prompt, radio, sheets, screen>>

\* the user touches a widget of the application page
Interact ==
    /\ pc = "idle" /\ screen = "app"
    /\ trigger' = TRUE
    /\ event' = NoEvent
    /\ StartRun
    /\ UNCHANGED <<today, session, sheets, screen>>

\* lines 29-47
LoginGate ==
    /\ pc = "gate"
    /\ LET flag == IF password_correct = "absent" THEN "False" ELSE password_correct
       IN  /\ password_correct' = flag
           /\ IF check_password(flag)
              THEN pc' = "load" /\ screen' = "app" /\ UNCHANGED trigger
              ELSE pc' = "idle" /\ screen' = "login" /\ trigger' = FALSE
    /\ UNCHANGED <<today, skip_prompt, radio, sheets, snapshot, event, views>>

(***************************************************************************)
(* Lines 80-118.  The worksheets hold their header row already.            *)
(***************************************************************************)
get_data ==
    /\ pc = "load"
    /\ df_exp' = ReadExpenses(sheet_exp)
    /\ df_inc' = sheet_inc
    /\ df_cat_bud' = sheet_cat_bud
    /\ pc' = "prompt"
    /\ UNCHANGED <<today, session, sheets, trigger, event, screen, views>>

\* lines 84-86 and 116-118: the spreadsheet is missing or does not answer;
\* st.error and st.stop leave a page without a widget
get_data_fails ==
    /\ pc = "load"
    /\ pc' = "idle"
    /\ screen' = "error"
    /\ trigger' = FALSE
    /\ UNCHANGED <<today, session, sheets, snapshot, event, views>>

(***************************************************************************)
(* The income reminder, lines 123-156, and the Logout button, 161-164.     *)
(***************************************************************************)
Reminder ==
    /\ pc = "prompt"
    /\ reminder' = [decided |-> TRUE, target |-> target_plan_month(today),
                    shown |-> ShowPrompt]
    /\ pc' = "widgets"
    /\ UNCHANGED <<today, session, sheets, snapshot, trigger, event, screen,
                   tab2, tab3, tab4>>

\* lines 147-153
quick_salary(sal_in) ==
    /\ pc = "widgets" /\ trigger /\ reminder.shown
    /\ Appended < MaxAppends
    /\ sheet_inc' = append_row(sheet_inc, IncomeRow(reminder.target, sal_in, today))
    /\ event' = [NoEvent EXCEPT !.type = "quick_salary", !.amt = sal_in]
    /\ Rerun
    /\ UNCHANGED <<today, session, sheet_exp, sheet_cat_bud, screen>>

\* lines 154-156
Skip ==
    /\ pc = "widgets" /\ trigger /\ reminder.shown
    /\ skip_prompt' = TRUE
    /\ event' = [NoEvent EXCEPT !.type = "skip"]
    /\ Rerun
    /\ UNCHANGED <<today, password_correct, radio, sheets, screen>>

\* lines 162-164
Logout ==
    /\ pc = "widgets" /\ trigger
    /\ password_correct' = "False"
    /\ event' = [NoEvent EXCEPT !.type = "logout"]
    /\ Rerun
    /\ UNCHANGED <<today, skip_prompt, radio, sheets, screen>>

\* none of the three was pressed
Main ==
    /\ pc = "widgets"
    /\ pc' = "tab1"
    /\ UNCHANGED <<today, session, sheets, snapshot, trigger, event, screen, views>>

(***************************************************************************)
(* Tab 1, lines 171-185.                                                   *)
(***************************************************************************)
\* lines 181-185: the row is appended and the run goes on
entry_form(date_input, category, desc, amt) ==
    /\ pc = "tab1" /\ trigger
    /\ Appended < MaxAppends
    /\ sheet_exp' = append_row(sheet_exp, ExpenseRow(date_input, category, desc, amt))
    /\ event' = [NoEvent EXCEPT !.type = "entry_form", !.cat = category, !.amt = amt]
    /\ trigger' = FALSE
    /\ pc' = "tab2"
    /\ UNCHANGED <<today, session, sheet_inc, sheet_cat_bud, snapshot, screen, views>>

Tab1 ==
    /\ pc = "tab1"
    /\ pc' = "tab2"
    /\ UNCHANGED <<today, session, sheets, snapshot, trigger, event, screen, views>>

(***************************************************************************)
(* Tab 2, lines 190-271, and tab 3, lines 276-327.  The views keep the     *)
(* tables and totals; the projection (a float quotient), the charts and    *)
(* the formatting of the metrics are left to the page.                     *)
(***************************************************************************)
Dashboard ==
    LET plan == curr_plan(df_cat_bud, today)
        actual_grp == GroupAmount(dash_df(df_exp, today))
        rows == WithFlag(merged(plan, actual_grp))
    IN  [rendered |-> TRUE,
         curr_sal |-> curr_sal(df_inc, today),
         curr_plan |-> plan,
         total_spent |-> SumAmount(dash_df(df_exp, today)),
         total_planned |-> IF DOMAIN plan # {} THEN TotalOf(plan) ELSE 0,
         merged |-> rows,
         over_budget |-> over_budget(rows)]

Tab2 ==
    /\ pc = "tab2"
    /\ tab2' = IF df_exp = <<>> THEN NoTab2 ELSE Dashboard
    /\ pc' = "tab3"
    /\ UNCHANGED <<today, session, sheets, snapshot, trigger, event, screen,
                   reminder, tab3, tab4>>

Analysis ==
    [rendered |-> TRUE,
     weekly |-> SumAmount(weekly_df(df_exp)),
     c_total |-> SumAmount(dash_df(df_exp, today)),
     p_total |-> SumAmount(prev_df(df_exp, today)),
     comp_merged |-> comp_merged(GroupAmount(dash_df(df_exp, today)),
                                 GroupAmount(prev_df(df_exp, today)))]

Tab3 ==
    /\ pc = "tab3"
    /\ tab3' = IF df_exp = <<>> THEN NoTab3 ELSE Analysis
    /\ pc' = "tab4"
    /\ UNCHANGED <<today, session, sheets, snapshot, trigger, event, screen,
                   reminder, tab2, tab4>>

(***************************************************************************)
(* Tab 4, lines 332-384.  The view keeps the stored income and the plan;   *)
(* the balance against the number input's value is left to the page.       *)
(***************************************************************************)
Planner(opt) ==
    [rendered |-> TRUE,
     plan_month_opt |-> opt,
     current_salary |-> LastAmount(df_inc, opt),
     display_df |-> display_df(df_cat_bud, opt),
     total_alloc |-> TotalOf(display_df(df_cat_bud, opt))]

\* the run goes on to the Budget Plan column and ends
Finish(r) ==
    /\ tab4' = Planner(plan_month_opt(r, today))
    /\ trigger' = FALSE
    /\ pc' = "idle"

\* line 333: the other month is picked
Radio ==
    /\ pc = "tab4" /\ trigger
    /\ radio' = 3 - radio
    /\ event' = [NoEvent EXCEPT !.type = "radio"]
    /\ Finish(3 - radio)
    /\ UNCHANGED <<today, password_correct, skip_prompt, sheets, snapshot, screen,
                   reminder, tab2, tab3>>

\* lines 342-349
salary_update(new_salary) ==
    /\ pc = "tab4" /\ trigger
    /\ Appended < MaxAppends
    /\ sheet_inc' = append_row(sheet_inc, IncomeRow(plan_month_opt(radio, today), new_salary, today))
    /\ event' = [NoEvent EXCEPT !.type = "salary_update", !.amt = new_salary]
    /\ Rerun
    /\ UNCHANGED <<today, session, sheet_exp, sheet_cat_bud, screen>>

\* lines 354-364, amt_input > 0
add_cat_budget(cat_input, amt_input) ==
    /\ pc = "tab4" /\ trigger
    /\ amt_input > 0
    /\ Appended < MaxAppends
    /\ sheet_cat_bud' = append_row(sheet_cat_bud,
                               BudgetRow(plan_month_opt(radio, today), cat_input, amt_input, today))
    /\ event' = [NoEvent EXCEPT !.type = "add_cat_budget", !.cat = cat_input,
                                !.amt = amt_input]
    /\ Rerun
    /\ UNCHANGED <<today, session, sheet_exp, sheet_inc, screen>>

\* lines 359-360, amt_input = 0: nothing is appended and the run goes on
add_cat_budget_zero(cat_input, amt_input) ==
    /\ pc = "tab4" /\ trigger
    /\ ~(amt_input > 0)
    /\ event' = [NoEvent EXCEPT !.type = "add_cat_budget", !.cat = cat_input,
                                !.amt = amt_input]
    /\ Finish(radio)
    /\ UNCHANGED <<today, session, sheets, snapshot, screen, reminder, tab2, tab3>>

\* no form of the tab was submitted
Tab4 ==
    /\ pc = "tab4"
    /\ Finish(radio)
    /\ UNCHANGED <<today, session, sheets, snapshot, event, screen,
                   reminder, tab2, tab3>>

(***************************************************************************)
(* Specifications.                                                         *)
(***************************************************************************)
Categories == {CATEGORIES[i] : i \in DOMAIN CATEGORIES}

\* a session of the application over empty worksheets
Init ==
    /\ today \in SessionDays
    /\ password_correct = "absent" /\ skip_prompt = FALSE /\ radio = 1
    /\ sheet_exp = <<>> /\ sheet_inc = <<>> /\ sheet_cat_bud = <<>>
    /\ df_exp = <<>> /\ df_inc = <<>> /\ df_cat_bud = <<>>
    /\ pc = "gate" /\ trigger = FALSE /\ event = NoEvent /\ screen = "none"
    /\ reminder = NoReminder /\ tab2 = NoTab2 /\ tab3 = NoTab3 /\ tab4 = NoTab4

UserInput ==
    \/ \E pw \in Passwords : password_entered(pw)
    \/ Interact

Handlers ==
    \/ \E sal \in SalaryInputs : quick_salary(sal)
    \/ Skip
    \/ Logout
    \/ \E c \in Categories, d \in Descriptions, a \in ExpenseInputs :
            entry_form(today, c, d, a)
    \/ Radio
    \/ \E sal \in SalaryInputs : salary_update(sal)
    \/ \E c \in Categories, a \in LimitInputs : add_cat_budget(c, a)
    \/ \E c \in Categories, a \in LimitInputs : add_cat_budget_zero(c, a)

Script ==
    \/ LoginGate
    \/ get_data
    \/ get_data_fails
    \/ Reminder
    \/ Main
    \/ Tab1
    \/ Tab2
    \/ Tab3
    \/ Tab4

Next == UserInput \/ Handlers \/ Script

Spec == Init /\ [][Next]_vars

BoundedSeq(S, n) == UNION {[1 .. k -> S] : k \in 0 .. n}

\* rows typed into the worksheet by hand: an amount that is no number, a
\* blank amount, a date that is none
MalformedExpenses ==
    {[Date |-> "2024-12-05", Category |-> "Groceries", Description |-> "milk",
      Amount |-> TextCell("abc")],
     [Date |-> "2025-01-05", Category |-> "Rent", Description |-> "milk",
      Amount |-> TextCell("")],
     [Date |-> "soon", Category |-> "Rent", Description |-> "milk",
      Amount |-> NumberCell(10)]}

StoredExpenses ==
    {ExpenseRow(d, c, "milk", 10) : d \in StoredDates, c \in Categories}
        \cup MalformedExpenses

StoredBudgets ==
    {BudgetRow(curr_month_str(t), c, 10, Date(2024, 12, 1)) :
        t \in ReportDays, c \in Categories}

\* one run of a logged-in session over worksheets that hold rows already
InitReport ==
    /\ today \in ReportDays
    /\ password_correct = "True" /\ skip_prompt = FALSE /\ radio = 1
    /\ sheet_exp \in BoundedSeq(StoredExpenses, MaxStoredExp)
    /\ sheet_inc = <<>>
    /\ sheet_cat_bud \in BoundedSeq(StoredBudgets, MaxStoredBud)
    /\ df_exp = <<>> /\ df_inc = <<>> /\ df_cat_bud = <<>>
    /\ pc = "load" /\ trigger = FALSE /\ event = NoEvent /\ screen = "app"
    /\ reminder = NoReminder /\ tab2 = NoTab2 /\ tab3 = NoTab3 /\ tab4 = NoTab4

NextReport == get_data \/ get_data_fails \/ Reminder \/ Main \/ Tab1 \/ Tab2 \/ Tab3 \/ Tab4

SpecReport == InitReport /\ [][NextReport]_vars

\* the period resolver on every date of the clock
InitPeriod ==
    /\ today \in {t \in {Date(y, m, d) : y \in Years, m \in 1 .. 12, d \in 1 .. 31} :
                    t.day <= days_in_month(t.year, t.month)}
    /\ password_correct = "True" /\ skip_prompt = FALSE /\ radio = 1
    /\ sheet_exp = <<>> /\ sheet_inc = <<>> /\ sheet_cat_bud = <<>>
    /\ df_exp = <<>> /\ df_inc = <<>> /\ df_cat_bud = <<>>
    /\ pc = "prompt" /\ trigger = FALSE /\ event = NoEvent /\ screen = "app"
    /\ reminder = NoReminder /\ tab2 = NoTab2 /\ tab3 = NoTab3 /\ tab4 = NoTab4

NextPeriod == Reminder

SpecPeriod == InitPeriod /\ [][NextPeriod]_vars

(***************************************************************************)
(* Properties.                                                             *)
(***************************************************************************)
MatchingRows(rows, p) == {i \in DOMAIN rows : rows[i].Month_Year = p}

\* v is 0 without a row of period p, else the Amount of the last such row
IsLastWrite(rows, p, v) ==
    IF MatchingRows(rows, p) = {}
    THEN v = 0
    ELSE \E i \in MatchingRows(rows, p) :
            /\ \A j \in MatchingRows(rows, p) : j <= i
            /\ v = rows[i].Amount

\* C1: the income the Dashboard shows for the current month, and the income
\* the Budget Planner shows for the selected month, is 0 when the Income table
\* has no row of that period and otherwise the Amount of the last appended row
\* of that period.
C1_IncomeLastWriteWins ==
    /\ tab2.rendered => IsLastWrite(sheet_inc, curr_month_str(today), tab2.curr_sal)
    /\ tab4.rendered => IsLastWrite(sheet_inc, tab4.plan_month_opt, tab4.current_salary)

\* two rows of the current period, 50 then 0: both views show 0
C1_Witness ==
    /\ tab2.rendered /\ tab4.rendered
    /\ tab4.plan_month_opt = curr_month_str(today)
    /\ Len(sheet_inc) = 2
    /\ sheet_inc[1].Month_Year = curr_month_str(today)
    /\ sheet_inc[2].Month_Year = curr_month_str(today)
    /\ sheet_inc[1].Amount = 50 /\ sheet_inc[2].Amount = 0
    /\ tab2.curr_sal = 0 /\ tab4.current_salary = 0

\* C2, as claimed: the reminder is shown exactly when the income resolved for
\* the target period is 0 and the prompt was not dismissed.
C2_PromptIffIncomeZero ==
    reminder.decided =>
        (reminder.shown <=>
            (LastAmount(df_inc, reminder.target) = 0 /\ ~skip_prompt))

\* C2, amended: the reminder is shown exactly when the Income table has no row
\* of the target period and the prompt was not dismissed; a dismissal lasts.
C2_PromptIffNoIncomeRow ==
    /\ [](reminder.decided =>
            (reminder.shown <=>
                (MatchingRows(df_inc, reminder.target) = {} /\ ~skip_prompt)))
    /\ [][skip_prompt => skip_prompt']_vars

\* a row of amount 0 for the target period: no reminder
C2_Witness ==
    /\ reminder.decided /\ ~reminder.shown /\ ~skip_prompt
    /\ Len(df_inc) = 1
    /\ df_inc[1].Month_Year = reminder.target /\ df_inc[1].Amount = 0

\* the year of the month before t's month
PrevYear(t) == IF t.month = 1 THEN t.year - 1 ELSE t.year

RECURSIVE SumWhere(_, _)
\* the sum of rows[i].Amount over the indices i of I
SumWhere(rows, I) ==
    IF I = {} THEN 0
    ELSE LET i == CHOOSE x \in I : TRUE
         IN  rows[i].Amount + SumWhere(rows, I \ {i})

InPrevMonth(rows, t) ==
    {i \in DOMAIN rows : /\ rows[i].Date.year = PrevYear(t)
                         /\ rows[i].Date.month = prev_month_idx(t)}

InThisMonth(rows, t) ==
    {i \in DOMAIN rows : rows[i].Date.year = t.year /\ rows[i].Date.month = t.month}

\* C3: the "previous" total, and each category's "previous" sum, is the sum of
\* the expenses of the calendar month before the current one, year and month.
C3_PreviousIsLastMonth ==
    tab3.rendered =>
        /\ tab3.p_total = SumWhere(df_exp, InPrevMonth(df_exp, today))
        /\ \A r \in tab3.comp_merged :
              r.Previous = SumWhere(df_exp,
                  {i \in InPrevMonth(df_exp, today) : df_exp[i].Category = r.Category})

PlannedCats(rows, p) == {rows[i].Category : i \in MatchingRows(rows, p)}

SpentCats(rows, t) == {rows[i].Category : i \in InThisMonth(rows, t)}

MergedUnion ==
    /\ {r.Category : r \in tab2.merged} =
            PlannedCats(df_cat_bud, curr_month_str(today)) \cup SpentCats(df_exp, today)
    /\ \A r \in tab2.merged :
          /\ r.Category \notin PlannedCats(df_cat_bud, curr_month_str(today))
                => r.Planned = 0
          /\ r.Category \notin SpentCats(df_exp, today) => r.Actual = 0

\* the run has passed the Dashboard tab
DashboardDone == pc \in {"tab3", "tab4"} \/ (pc = "idle" /\ tab4.rendered)

\* C4, as claimed: once the Dashboard tab has run, whatever the tables hold,
\* the merged rows carry the union of the planned and the spent categories.
C4_MergedUnionAlways ==
    DashboardDone => MergedUnion

\* C4, amended: when the Expenses snapshot has a row, the merged rows carry the
\* union of the planned and the spent categories, the missing side being 0.
C4_MergedUnionWhenExpenses ==
    (DashboardDone /\ df_exp # <<>>) => tab2.rendered /\ MergedUnion

\* one category planned only, the other spent only
C4_Witness ==
    /\ tab2.rendered
    /\ \E r \in tab2.merged : r.Planned > 0 /\ r.Actual = 0
    /\ \E r \in tab2.merged : r.Planned = 0 /\ r.Actual > 0

RECURSIVE SumPlannedWhere(_, _)
SumPlannedWhere(rows, I) ==
    IF I = {} THEN 0
    ELSE LET i == CHOOSE x \in I : TRUE
         IN  rows[i].Planned_Amount + SumPlannedWhere(rows, I \ {i})

\* grouped maps exactly the categories planned in p to the sum of their rows
IsPlannedBudget(grouped, rows, p) ==
    /\ DOMAIN grouped = PlannedCats(rows, p)
    /\ \A c \in DOMAIN grouped :
          grouped[c] = SumPlannedWhere(rows,
                          {i \in MatchingRows(rows, p) : rows[i].Category = c})

\* the planned amount of category c in period p, as the Budget Planner groups it
PlannedOf(rows, p, c) ==
    IF c \in DOMAIN display_df(rows, p) THEN display_df(rows, p)[c] ELSE 0

PlanPeriods == {curr_month_str(today), next_month_str(today)}

\* C5: the planned budget of a period maps each category with an allocation
\* row in it to the sum of those rows and has no other entry; an Add Allocation
\* of x to (p, c) raises that amount by x and changes no other.
C5_PlannedBudgetIsSum ==
    /\ [](/\ tab4.rendered =>
                IsPlannedBudget(tab4.display_df, sheet_cat_bud, tab4.plan_month_opt)
          /\ tab2.rendered =>
                IsPlannedBudget(tab2.curr_plan, sheet_cat_bud, curr_month_str(today)))
    /\ [][sheet_cat_bud' # sheet_cat_bud =>
            /\ event'.type = "add_cat_budget"
            /\ \A p \in PlanPeriods, c \in Categories :
                  PlannedOf(sheet_cat_bud', p, c) =
                      PlannedOf(sheet_cat_bud, p, c) +
                          (IF p = plan_month_opt(radio, today) /\ c = event'.cat
                           THEN event'.amt ELSE 0)]_vars

\* two allocations of 10 to one category of the current month: 20
C5_Witness ==
    /\ tab4.rendered /\ tab2.rendered
    /\ Len(sheet_cat_bud) = 2
    /\ sheet_cat_bud[1].Category = "Groceries" /\ sheet_cat_bud[2].Category = "Groceries"
    /\ DOMAIN tab4.display_df = {"Groceries"}
    /\ tab4.display_df["Groceries"] = 20
    /\ tab2.curr_plan = tab4.display_df

MonthKey == <<"01", "02", "03", "04", "05", "06", "07", "08", "09", "10", "11", "12">>

YearKey(y) ==
    CASE y = 2023 -> "2023" [] y = 2024 -> "2024" [] y = 2025 -> "2025"
      [] y = 2026 -> "2026"

PeriodKey(y, m) == YearKey(y) \o "-" \o MonthKey[m]

\* C6: current_period is the date's zero-padded "YYYY-MM", next_period the
\* month after it, December rolling over to January of the next year, and the
\* target period is next_period from day 25 on, current_period before.
C6_PeriodResolver ==
    LET y == today.year
        m == today.month
        next == IF m = 12 THEN PeriodKey(y + 1, 1) ELSE PeriodKey(y, m + 1)
    IN  /\ curr_month_str(today) = PeriodKey(y, m)
        /\ next_month_str(today) = next
        /\ reminder.decided =>
              reminder.target = IF today.day >= 25 THEN next ELSE PeriodKey(y, m)

\* 25 December 2024: the target is January 2025
C6_Witness ==
    /\ today = Date(2024, 12, 25)
    /\ reminder.decided
    /\ reminder.target = "2025-01"

\* C7: the over-limit rows are the merged rows with Actual > Planned, each
\* over by Actual - Planned > 0, and Is_Over_Budget marks exactly those rows.
C7_OverBudgetRows ==
    tab2.rendered =>
        /\ {o.Category : o \in tab2.over_budget} =
                {r.Category : r \in {x \in tab2.merged : x.Actual > x.Planned}}
        /\ \A o \in tab2.over_budget :
              /\ o.Over_By > 0
              /\ \E r \in tab2.merged :
                    r.Category = o.Category /\ o.Over_By = r.Actual - r.Planned
        /\ \A r \in tab2.merged :
              r.Is_Over_Budget <=> r.Category \in {o.Category : o \in tab2.over_budget}

\* one category exactly on budget and left out, another over
C7_Witness ==
    /\ tab2.rendered
    /\ \E r \in tab2.merged :
          /\ r.Actual = r.Planned /\ r.Planned > 0
          /\ r.Category \notin {o.Category : o \in tab2.over_budget}
    /\ \E o \in tab2.over_budget : o.Over_By = 10

\* t2 is t1, or t1 with one row after its last
AtMostAppended(t1, t2) ==
    \/ t2 = t1
    \/ Len(t2) = Len(t1) + 1 /\ SubSeq(t2, 1, Len(t1)) = t1

\* C8: a step appends at most one row, at the end of one table, and that only
\* in the handler of the table; every stored row stays as and where it was;
\* Add Allocation with amount 0 appends nothing.
C8_AppendOnly ==
    [][/\ AtMostAppended(sheet_exp, sheet_exp')
       /\ AtMostAppended(sheet_inc, sheet_inc')
       /\ AtMostAppended(sheet_cat_bud, sheet_cat_bud')
       /\ Len(sheet_exp') + Len(sheet_inc') + Len(sheet_cat_bud') <= Appended + 1
       /\ sheet_exp' # sheet_exp => event'.type = "entry_form"
       /\ sheet_inc' # sheet_inc => event'.type \in {"quick_salary", "salary_update"}
       /\ sheet_cat_bud' # sheet_cat_bud =>
             event'.type = "add_cat_budget" /\ event'.amt > 0
      ]_vars

\* an allocation of 0 was submitted after two appends and added nothing
C8_Witness ==
    /\ event.type = "add_cat_budget" /\ event.amt = 0
    /\ tab4.rendered
    /\ sheet_cat_bud = <<>>
    /\ Len(sheet_inc) = 2 /\ Len(sheet_exp) = 1

\* C9: a tab is rendered only from a snapshot that holds every row of the
\* worksheets.
C9_RenderedFromFreshSnapshot ==
    (tab2.rendered \/ tab3.rendered \/ tab4.rendered) =>
        /\ df_exp = ReadExpenses(sheet_exp)
        /\ df_inc = sheet_inc
        /\ df_cat_bud = sheet_cat_bud

\* C10: the worksheets are read and appended to only while password_correct is
\* true; it becomes true only by the right password; a wrong password and
\* Logout make it false.
C10_OnlyWhenLoggedIn ==
    [][/\ (sheets' # sheets \/ (pc = "load" /\ pc' # "load")) =>
             password_correct = "True" /\ password_correct' = "True"
       /\ (password_correct' = "True" /\ password_correct # "True") =>
             pc = "idle" /\ event'.type = "password" /\ event'.text = SecretPassword
       /\ (pc = "idle" /\ event'.type = "password" /\ event'.text # SecretPassword) =>
             password_correct' = "False"
       /\ (pc = "widgets" /\ event'.type = "logout") => password_correct' = "False"
      ]_vars

\* logged in again after a logout, the worksheets are read with a row in them
C10_Witness ==
    /\ event.type = "password" /\ password_correct = "True"
    /\ pc = "prompt"
    /\ Appended >= 1

====
